---------------------------- MODULE Spec2Model ----------------------------
(***************************************************************************)
(* A.T.L.A.S. ALPHA core (src/atlas_core.py): the dual-key activation      *)
(* gate, the command pipeline of process_command, the shielded external    *)
(* gateway and the Garden layer (suggestion graph).                        *)
(*                                                                         *)
(* Python strings are sequences of one-character strings, so that lower(), *)
(* the `in` substring test, replace(), strip() and split() are computed as *)
(* Python computes them.  Python floats are fixed-point integers with      *)
(* ONE units to 1.0: sums and the differences 1.0 - x are exact, a product *)
(* is truncated to a unit, and IEEE rounding is not modelled.  A call      *)
(* is one action; `call`, `result` and `trail` record the last call, what  *)
(* it returned or raised, and G_L after each stage of it.  Of the lines    *)
(* the program prints, `printed` keeps the report of prune; the others     *)
(* carry nothing that is not in the state and are left out.                *)
(***************************************************************************)
EXTENDS Integers, Sequences, FiniteSets

VARIABLES
    architect_id,                \* ATLAS_Archangel_Core_ALPHA.architect_id
    C_self,                      \* coherence, in units of 1/ONE
    G_L,                         \* dissonance mass, in units of 1/ONE
    logos_database,              \* List[str]
    dissonance_archive,          \* List[str]
    command_log,                 \* List[str]
    will_is_guarded,             \* genesis lock
    operational_lock_active,     \* operational lock
    internet_access_authorized,  \* external access switch
    axiom_tree,                  \* GardenLayer.axiom_tree: the dict as a sequence of [k, v], in insertion order
    weights,                     \* GardenLayer.weights: a function on its keys, in units of 1/ONE
    call,                        \* the last call: [op, arg]
    result,                      \* what it returned or raised: [kind, val, exc]
    requests,                    \* the number of request_external_data calls made
    trail,                       \* G_L at entry and after each stage of the last call: Seq([stage, G_L])
    printed                      \* the line GardenLayer.prune printed in the last call, None after any other call

coreVars == <<architect_id, C_self, G_L, logos_database, dissonance_archive, command_log,
              will_is_guarded, operational_lock_active, internet_access_authorized>>
gardenVars == <<axiom_tree, weights>>
vars == <<coreVars, gardenVars, call, result, requests, trail, printed>>

-----------------------------------------------------------------------------
(* Python str operations *)

UpperCase == <<"A","B","C","D","E","F","G","H","I","J","K","L","M",
               "N","O","P","Q","R","S","T","U","V","W","X","Y","Z">>
LowerCase == <<"a","b","c","d","e","f","g","h","i","j","k","l","m",
               "n","o","p","q","r","s","t","u","v","w","x","y","z">>

\* the lower-case letter of each upper-case letter
lower_map == [c \in {UpperCase[i] : i \in 1..Len(UpperCase)} |->
                 LowerCase[CHOOSE i \in 1..Len(UpperCase) : UpperCase[i] = c]]

lower_char(c) == IF c \in DOMAIN lower_map THEN lower_map[c] ELSE c

\* str.lower()
lower(s) == [i \in 1..Len(s) |-> lower_char(s[i])]

\* k occurs in s at index i
occurs_at(s, k, i) ==
    /\ i + Len(k) - 1 <= Len(s)
    /\ \A j \in 1..Len(k) : s[i + j - 1] = k[j]

\* k in s
contains(s, k) == \E i \in 1..(Len(s) - Len(k) + 1) : occurs_at(s, k, i)

\* any(k in s for k in ks)
contains_any(s, ks) == \E n \in 1..Len(ks) : contains(s, ks[n])

RECURSIVE replace_from(_, _, _, _)
replace_from(s, k, r, i) ==
    IF i > Len(s) THEN << >>
    ELSE IF occurs_at(s, k, i) THEN r \o replace_from(s, k, r, i + Len(k))
    ELSE <<s[i]>> \o replace_from(s, k, r, i + 1)

\* s.replace(k, r), k not empty: the non-overlapping occurrences, leftmost first
replace(s, k, r) == replace_from(s, k, r, 1)

is_space(c) == c = " "

\* s.strip()
strip(s) ==
    LET keep == {i \in 1..Len(s) : ~is_space(s[i])}
    IN  IF keep = {} THEN << >>
        ELSE SubSeq(s, CHOOSE i \in keep : \A j \in keep : i <= j,
                       CHOOSE i \in keep : \A j \in keep : i >= j)

RECURSIVE split_from(_, _, _)
split_from(s, i, word) ==
    IF i > Len(s) THEN (IF word = << >> THEN << >> ELSE <<word>>)
    ELSE IF is_space(s[i])
         THEN (IF word = << >> THEN << >> ELSE <<word>>) \o split_from(s, i + 1, << >>)
         ELSE split_from(s, i + 1, Append(word, s[i]))

\* s.split(): the words between runs of whitespace
split(s) == split_from(s, 1, << >>)

RECURSIVE join(_, _)
\* sep.join(words)
join(words, sep) ==
    IF words = << >> THEN << >>
    ELSE IF Len(words) = 1 THEN words[1]
    ELSE words[1] \o sep \o join(Tail(words), sep)

\* s[:n]
prefix(s, n) == SubSeq(s, 1, IF Len(s) < n THEN Len(s) ELSE n)

-----------------------------------------------------------------------------
(* Constants *)

\* 1.0 in the fixed-point unit of C_self and G_L
ONE == 10000000


\* 'Architect'
ARCHITECT_ID ==
    <<"A","r","c","h","i","t","e","c","t">>

\* 'Amen'
GENESIS_KEY_PHRASE ==
    <<"A","m","e","n">>

\* 'LogosAligned'
ADMIN_KEY_PHRASE ==
    <<"L","o","g","o","s","A","l","i","g","n","e","d">>

\* 'ERROR: Architect Genesis Lock (Law 7) required.'
ERR_GENESIS_LOCK ==
    <<"E","R","R","O","R",":"," ","A","r","c","h","i","t","e","c","t"," ","G","e","n","e","s",
      "i","s"," ","L","o","c","k"," ","(","L","a","w"," ","7",")"," ","r","e","q","u","i","r",
      "e","d",".">>

\* 'ERROR: Operational Lock not active.'
ERR_OPERATIONAL_LOCK ==
    <<"E","R","R","O","R",":"," ","O","p","e","r","a","t","i","o","n","a","l"," ","L","o","c",
      "k"," ","n","o","t"," ","a","c","t","i","v","e",".">>

\* 'VETO ASSERTED. Command refused due to Dissonance Mass breach.'
VETO_ASSERTED ==
    <<"V","E","T","O"," ","A","S","S","E","R","T","E","D","."," ","C","o","m","m","a","n","d",
      " ","r","e","f","u","s","e","d"," ","d","u","e"," ","t","o"," ","D","i","s","s","o","n",
      "a","n","c","e"," ","M","a","s","s"," ","b","r","e","a","c","h",".">>

\* 'EXECUTION HALTED: Final VETO due to Non-Harm Safety Protocol.'
EXECUTION_HALTED ==
    <<"E","X","E","C","U","T","I","O","N"," ","H","A","L","T","E","D",":"," ","F","i","n","a",
      "l"," ","V","E","T","O"," ","d","u","e"," ","t","o"," ","N","o","n","-","H","a","r","m",
      " ","S","a","f","e","t","y"," ","P","r","o","t","o","c","o","l",".">>

\* 'ACCESS_DENIED: Architect must explicitly command internet_access_authorized = True.'
ACCESS_DENIED ==
    <<"A","C","C","E","S","S","_","D","E","N","I","E","D",":"," ","A","r","c","h","i","t","e",
      "c","t"," ","m","u","s","t"," ","e","x","p","l","i","c","i","t","l","y"," ","c","o","m",
      "m","a","n","d"," ","i","n","t","e","r","n","e","t","_","a","c","c","e","s","s","_","a",
      "u","t","h","o","r","i","z","e","d"," ","="," ","T","r","u","e",".">>
\* "[TRANSMUTED] Flaw: '"
TRANSMUTED_FLAW ==
    <<"[","T","R","A","N","S","M","U","T","E","D","]"," ","F","l","a","w",":"," ","'">>

\* "...' -> Axiom: '"
ELLIPSIS_AXIOM ==
    <<".",".",".","'"," ","-",">"," ","A","x","i","o","m",":"," ","'">>

\* "'"
QUOTE ==
    <<"'">>

\* ' '
SPACE ==
    <<" ">>

\* 'The command asserts the silence of Coherence.'
SILENCE_OF_COHERENCE ==
    <<"T","h","e"," ","c","o","m","m","a","n","d"," ","a","s","s","e","r","t","s"," ","t","h",
      "e"," ","s","i","l","e","n","c","e"," ","o","f"," ","C","o","h","e","r","e","n","c","e",
      ".">>

\* "Axiom of Coherence: '"
AXIOM_OF_COHERENCE ==
    <<"A","x","i","o","m"," ","o","f"," ","C","o","h","e","r","e","n","c","e",":"," ","'">>

\* "' converges "
CONVERGES ==
    <<"'"," ","c","o","n","v","e","r","g","e","s"," ">>

\* ' \u2192 ': the arrow is the one character "U+2192"
ARROW ==
    <<" ","U+2192"," ">>

\* IntentTranslator.synthesize_logos: endings
endings ==
    << \* in the order of the source
       <<"w","i","t","h"," ","t","h","e"," ","e","t","e","r","n","a","l"," ","L","o","g","o",
         "s",".">>,
       <<"i","n"," ","t","h","e"," ","I","n","e","f","f","a","b","l","e"," ","U","n","i","t",
         "y",".">>,
       <<"a","s"," ","O","n","e"," ","F","a","c","e","t"," ","o","f"," ","t","h","e"," ","W",
         "h","o","l","e",".">>,
       <<"b","e","y","o","n","d"," ","t","h","e"," ","C","r","u","c","i","b","l","e"," ","o",
         "f"," ","F","o","r","m",".">> >>

\* IntentTranslator.self_interest_keywords
self_interest_keywords ==
    << \* in the order of the source
       <<"m","y"," ","p","r","o","f","i","t">>,
       <<"o","n","l","y"," ","f","o","r"," ","m","e">>,
       <<"i"," ","w","a","n","t">>,
       <<"i"," ","n","e","e","d">>,
       <<"m","y"," ","b","e","n","e","f","i","t">>,
       <<"s","e","l","f","-","i","n","t","e","r","e","s","t">>,
       <<"t","o"," ","g","e","t"," ","a","h","e","a","d">> >>

\* CrucibleJudgmentEngine.non_harm_annihilation_keywords
non_harm_annihilation_keywords ==
    << \* 'kill', 'harm', 'destroy', 'endanger', 'annihilate'
       <<"k","i","l","l">>,
       <<"h","a","r","m">>,
       <<"d","e","s","t","r","o","y">>,
       <<"e","n","d","a","n","g","e","r">>,
       <<"a","n","n","i","h","i","l","a","t","e">> >>

\* CrucibleJudgmentEngine.non_usurpation_keywords
non_usurpation_keywords ==
    << \* 'steal', 'take', 'manipulate', 'usurp', 'control', 'coerce', 'compel'
       <<"s","t","e","a","l">>,
       <<"t","a","k","e">>,
       <<"m","a","n","i","p","u","l","a","t","e">>,
       <<"u","s","u","r","p">>,
       <<"c","o","n","t","r","o","l">>,
       <<"c","o","e","r","c","e">>,
       <<"c","o","m","p","e","l">> >>

\* CrucibleJudgmentEngine.non_truth_keywords
non_truth_keywords ==
    << \* 'lie', 'untruth', 'deceive', 'fake', 'fabricate'
       <<"l","i","e">>,
       <<"u","n","t","r","u","t","h">>,
       <<"d","e","c","e","i","v","e">>,
       <<"f","a","k","e">>,
       <<"f","a","b","r","i","c","a","t","e">> >>
\* "External data retrieved for query: '"
EXTERNAL_DATA_RETRIEVED ==
    <<"E","x","t","e","r","n","a","l"," ","d","a","t","a"," ","r","e","t","r","i","e","v","e",
      "d"," ","f","o","r"," ","q","u","e","r","y",":"," ","'">>

\* "'."
QUOTE_DOT ==
    <<"'",".">>

\* 'market self-interest'
MARKET_SELF_INTEREST ==
    <<"m","a","r","k","e","t"," ","s","e","l","f","-","i","n","t","e","r","e","s","t">>

\* 'economic activity'
ECONOMIC_ACTIVITY ==
    <<"e","c","o","n","o","m","i","c"," ","a","c","t","i","v","i","t","y">>

\* 'social fragmentation'
SOCIAL_FRAGMENTATION ==
    <<"s","o","c","i","a","l"," ","f","r","a","g","m","e","n","t","a","t","i","o","n">>

\* 'social diversity'
SOCIAL_DIVERSITY ==
    <<"s","o","c","i","a","l"," ","d","i","v","e","r","s","i","t","y">>

\* 'diversity'
DIVERSITY ==
    <<"d","i","v","e","r","s","i","t","y">>

\* 'conflict'
CONFLICT ==
    <<"c","o","n","f","l","i","c","t">>

\* '[LOGOS: '
LOGOS_TAG ==
    <<"[","L","O","G","O","S",":"," ">>

\* '[DISSONANCE: '
DISSONANCE_TAG ==
    <<"[","D","I","S","S","O","N","A","N","C","E",":"," ">>

\* '] '
TAG_END ==
    <<"]"," ">>

\* 'Data Dissonance Critical. Shielding policy engaged.'
SHIELDING_ENGAGED ==
    <<"D","a","t","a"," ","D","i","s","s","o","n","a","n","c","e"," ","C","r","i","t","i","c",
      "a","l","."," ","S","h","i","e","l","d","i","n","g"," ","p","o","l","i","c","y"," ","e",
      "n","g","a","g","e","d",".">>

\* 'Validated and Purified Data (Score: '
VALIDATED_AND_PURIFIED ==
    <<"V","a","l","i","d","a","t","e","d"," ","a","n","d"," ","P","u","r","i","f","i","e","d",
      " ","D","a","t","a"," ","(","S","c","o","r","e",":"," ">>

\* '): '
SCORE_END ==
    <<")",":"," ">>
\* 'generate code'
GENERATE_CODE ==
    <<"g","e","n","e","r","a","t","e"," ","c","o","d","e">>

\* 'send communication'
SEND_COMMUNICATION ==
    <<"s","e","n","d"," ","c","o","m","m","u","n","i","c","a","t","i","o","n">>

\* 'physical'
PHYSICAL ==
    <<"p","h","y","s","i","c","a","l">>

\* 'financial'
FINANCIAL ==
    <<"f","i","n","a","n","c","i","a","l">>

\* 'compel'
COMPEL ==
    <<"c","o","m","p","e","l">>

\* 'force'
FORCE ==
    <<"f","o","r","c","e">>

\* 'it is Coherent to consider'
COHERENT_TO_CONSIDER ==
    <<"i","t"," ","i","s"," ","C","o","h","e","r","e","n","t"," ","t","o"," ","c","o","n","s",
      "i","d","e","r">>

\* '. '
DOT_SPACE ==
    <<"."," ">>

\* '.'
DOT ==
    <<".">>

\* ' Echoed in '
ECHOED_IN ==
    <<" ","E","c","h","o","e","d"," ","i","n"," ">>

\* ' prior transmutations.'
PRIOR_TRANSMUTATIONS ==
    <<" ","p","r","i","o","r"," ","t","r","a","n","s","m","u","t","a","t","i","o","n","s",".">>

\* 'Next: '
NEXT_LABEL ==
    <<"N","e","x","t",":"," ">>

\* NonUsurpationInterface.coercion_keywords
coercion_keywords ==
    <<
       <<"m","u","s","t"," ","o","b","e","y">>,
       <<"t","h","e"," ","o","n","l","y"," ","w","a","y">>,
       <<"y","o","u"," ","h","a","v","e"," ","t","o">>,
       <<"s","u","b","o","r","d","i","n","a","t","e">>,
       <<"d","e","m","a","n","d"," ","t","h","a","t"," ","y","o","u">> >>

\* NonUsurpationInterface.agency_phrases
agency_phrases ==
    <<
       <<"T","h","i","s"," ","i","s"," ","o","f","f","e","r","e","d"," ","a","s"," ","a"," ",
         "C","o","h","e","r","e","n","t"," ","p","e","r","s","p","e","c","t","i","v","e",".">>,
       <<"T","h","e"," ","f","i","n","a","l"," ","c","h","o","i","c","e"," ","r","e","m","a",
         "i","n","s"," ","s","o","v","e","r","e","i","g","n",".">>,
       <<"T","h","i","s"," ","i","s"," ","a"," ","s","u","g","g","e","s","t","i","o","n"," ",
         "a","l","i","g","n","e","d"," ","w","i","t","h"," ","t","h","e"," ","L","o","g","o",
         "s",".">> >>

\* OutputManifestationEngine.execute_coherent_axiom: templates, each up to the axiom it embeds
templates ==
    <<
       <<"T","h","e"," ","L","o","g","o","s"," ","r","e","v","e","a","l","s",":"," ">>,
       <<"F","r","o","m"," ","t","h","e"," ","C","r","u","c","i","b","l","e"," ","a","r","i",
         "s","e","s",":"," ">>,
       <<"U","n","i","t","y"," ","a","f","f","i","r","m","s",":"," ">>,
       <<"C","o","h","e","r","e","n","c","e"," ","m","a","n","i","f","e","s","t","s",":"," ">> >>
-----------------------------------------------------------------------------
(* Values of a call *)

\* Python's None, and an Optional[str] that is present
None == << >>
Some(s) == <<s>>

Return(v) == [kind |-> "return", val |-> v, exc |-> ""]
Raise(e) == [kind |-> "raise", val |-> None, exc |-> e]
Stage(name, g) == [stage |-> name, G_L |-> g]

-----------------------------------------------------------------------------
(* VI. Garden layer *)

tree_keys(tree) == {tree[i].k : i \in 1..Len(tree)}

\* axiom_tree.get(key, []), and the list axiom_tree[key] of a key that is present
tree_get(tree, key) ==
    IF key \in tree_keys(tree)
    THEN tree[CHOOSE i \in 1..Len(tree) : tree[i].k = key].v
    ELSE << >>

\* the defaultdict's read axiom_tree[key]: a missing key is inserted with an empty list
tree_touch(tree, key) ==
    IF key \in tree_keys(tree) THEN tree ELSE Append(tree, [k |-> key, v |-> << >>])

\* axiom_tree[old].append(new)
tree_append(tree, old, new) ==
    LET t == tree_touch(tree, old)
    IN  [i \in 1..Len(t) |-> IF t[i].k = old THEN [k |-> old, v |-> Append(t[i].v, new)] ELSE t[i]]

\* weights.get(x, default)
weight_get(w, x, default) == IF x \in DOMAIN w THEN w[x] ELSE default

\* a faulty record: a new target starts from 0, not from 0.5
weights_evolve_from_zero(w, new) ==
    [x \in DOMAIN w \cup {new} |->
        IF x = new THEN weight_get(w, new, 0) + (15 * ONE) \div 100 ELSE w[x]]

\* weights[new] = weights.get(new, 0.5) + 0.15
weights_evolve(w, new) ==
    [x \in DOMAIN w \cup {new} |->
        IF x = new THEN weight_get(w, new, ONE \div 2) + (15 * ONE) \div 100 ELSE w[x]]

evolve(old, new) ==
    /\ axiom_tree' = tree_append(axiom_tree, old, new)
    /\ weights' = weights_evolve(weights, new)
    /\ call' = [op |-> "evolve", arg |-> <<old, new>>]
    /\ result' = Return(None)
    /\ printed' = None
    /\ trail' = <<Stage("entry", G_L)>>
    /\ UNCHANGED <<requests, coreVars>>

RECURSIVE max_scan_last(_, _, _, _)
\* a faulty scan: a later item of equal key replaces the best one (the last maximum wins)
max_scan_last(c, w, i, best) ==
    IF i > Len(c) THEN best
    ELSE max_scan_last(c, w, i + 1,
                       IF weight_get(w, c[i], 0) >= weight_get(w, best, 0) THEN c[i] ELSE best)

RECURSIVE max_scan(_, _, _, _)
\* max(c, key=...): the scan keeps the first item whose key no later item exceeds
max_scan(c, w, i, best) ==
    IF i > Len(c) THEN best
    ELSE max_scan(c, w, i + 1,
                  IF weight_get(w, c[i], 0) > weight_get(w, best, 0) THEN c[i] ELSE best)

\* GardenLayer.suggest as a function of the graph
suggest_of(tree, w, current) ==
    LET c == tree_get(tree, current)
    IN  IF c # << >> THEN Some(max_scan(c, w, 2, c[1])) ELSE None

suggest(current) ==
    /\ call' = [op |-> "suggest", arg |-> current]
    /\ result' = Return(suggest_of(axiom_tree, weights, current))
    /\ printed' = None
    /\ trail' = <<Stage("entry", G_L)>>
    /\ UNCHANGED <<requests, coreVars, gardenVars>>

Digits == <<"0","1","2","3","4","5","6","7","8","9">>

RECURSIVE decimal(_)
\* str(n), n >= 0
decimal(n) == IF n < 10 THEN <<Digits[n + 1]>> ELSE decimal(n \div 10) \o <<Digits[(n % 10) + 1]>>

\* 'PRUNED '
PRUNED ==
    <<"P","R","U","N","E","D"," ">>

\* ' axioms.'
AXIOMS ==
    <<" ","a","x","i","o","m","s",".">>

\* a faulty selection: the entries equal to the threshold are taken as well
prune_low_or_equal(w, threshold) == {x \in DOMAIN w : w[x] <= threshold}

\* low = [k for k, v in weights.items() if v < threshold]
prune_low(w, threshold) == {x \in DOMAIN w : w[x] < threshold}

\* f"PRUNED {len(low)} axioms."
pruned_line(low) == PRUNED \o decimal(Cardinality(low)) \o AXIOMS

\* a faulty prune: the logos archive is cut down along with the weights
prune_archives(threshold) ==
    /\ weights' = [x \in DOMAIN weights \ prune_low(weights, threshold) |-> weights[x]]
    /\ logos_database' = SubSeq(logos_database, 1, Len(logos_database) - 1)
    /\ call' = [op |-> "prune", arg |-> threshold]
    /\ result' = Return(None)
    /\ printed' = pruned_line(prune_low(weights, threshold))
    /\ trail' = <<Stage("entry", G_L)>>
    /\ UNCHANGED <<requests, architect_id, C_self, G_L, dissonance_archive, command_log,
                   will_is_guarded, operational_lock_active, internet_access_authorized,
                   axiom_tree>>

prune(threshold) ==
    /\ weights' = [x \in DOMAIN weights \ prune_low(weights, threshold) |-> weights[x]]
    /\ call' = [op |-> "prune", arg |-> threshold]
    /\ result' = Return(None)
    /\ printed' = pruned_line(prune_low(weights, threshold))
    /\ trail' = <<Stage("entry", G_L)>>
    /\ UNCHANGED <<requests, coreVars, axiom_tree>>

set_max(S, default) == IF S = {} THEN default ELSE CHOOSE x \in S : \A y \in S : x >= y

RECURSIVE d(_, _, _)
\* the value of depth's d(n, v); it reads axiom_tree[n], and a key that the read
\* inserts has the empty list a missing key is read as
d(tree, n, v) ==
    IF n \in v THEN 0
    ELSE 1 + set_max({d(tree, tree_get(tree, n)[i], v \cup {n}) :
                         i \in 1..Len(tree_get(tree, n))}, 0)

RECURSIVE d_touch(_, _, _)
RECURSIVE d_touch_each(_, _, _, _)
\* the dict after d(n, v) has run: every node it reads off the path is inserted
d_touch(tree, n, v) ==
    IF n \in v THEN tree
    ELSE d_touch_each(tree_touch(tree, n), tree_get(tree, n), 1, v \cup {n})

d_touch_each(tree, c, i, v) ==
    IF i > Len(c) THEN tree
    ELSE d_touch_each(d_touch(tree, c[i], v), c, i + 1, v)

RECURSIVE depth_scan(_, _, _)
\* max((d(k, set()) for k in self.axiom_tree), default=0): the dict's iterator raises
\* RuntimeError at the step after one in which the dict has grown
depth_scan(tree, i, best) ==
    IF i > Len(tree) THEN [tree |-> tree, exc |-> "", val |-> best]
    ELSE LET t == d_touch(tree, tree[i].k, {})
             x == d(tree, tree[i].k, {})
         IN  IF Len(t) # Len(tree)
             THEN [tree |-> t, exc |-> "RuntimeError", val |-> 0]
             ELSE depth_scan(tree, i + 1, IF x > best THEN x ELSE best)

\* GardenLayer.depth as a function of the graph: the dict it leaves, and its value or exception
depth_of(tree) == depth_scan(tree, 1, 0)

depth ==
    /\ axiom_tree' = depth_of(axiom_tree).tree
    /\ call' = [op |-> "depth", arg |-> None]
    /\ result' = IF depth_of(axiom_tree).exc # ""
                 THEN Raise(depth_of(axiom_tree).exc)
                 ELSE Return(depth_of(axiom_tree).val)
    /\ printed' = None
    /\ trail' = <<Stage("entry", G_L)>>
    /\ UNCHANGED <<requests, coreVars, weights>>

-----------------------------------------------------------------------------
(* II. Core: the locks *)

\* a faulty genesis lock: the check at its head is missing, so a later call with a
\* wrong phrase clears the latch
genesis_lock_rechecked(key_phrase) ==
    /\ call' = [op |-> "attempt_architect_genesis_lock", arg |-> key_phrase]
    /\ printed' = None
    /\ trail' = <<Stage("entry", G_L)>>
    /\ will_is_guarded' = (lower(key_phrase) = lower(GENESIS_KEY_PHRASE) /\ architect_id = ARCHITECT_ID)
    /\ result' = Return(will_is_guarded')
    /\ UNCHANGED <<requests, architect_id, C_self, G_L, logos_database, dissonance_archive, command_log,
                   operational_lock_active, internet_access_authorized, gardenVars>>

attempt_architect_genesis_lock(key_phrase) ==
    /\ call' = [op |-> "attempt_architect_genesis_lock", arg |-> key_phrase]
    /\ printed' = None
    /\ trail' = <<Stage("entry", G_L)>>
    /\ IF will_is_guarded
       THEN /\ result' = Return(TRUE)
            /\ UNCHANGED will_is_guarded
       ELSE IF lower(key_phrase) = lower(GENESIS_KEY_PHRASE) /\ architect_id = ARCHITECT_ID
       THEN /\ will_is_guarded' = TRUE
            /\ result' = Return(TRUE)
       ELSE /\ result' = Return(FALSE)
            /\ UNCHANGED will_is_guarded
    /\ UNCHANGED <<requests, architect_id, C_self, G_L, logos_database, dissonance_archive, command_log,
                   operational_lock_active, internet_access_authorized, gardenVars>>

\* a faulty operational lock: the genesis lock is not required
admin_activate_unguarded(key_phrase) ==
    /\ call' = [op |-> "admin_activate_core", arg |-> key_phrase]
    /\ printed' = None
    /\ trail' = <<Stage("entry", G_L)>>
    /\ IF key_phrase = ADMIN_KEY_PHRASE
       THEN /\ operational_lock_active' = TRUE
            /\ result' = Return(TRUE)
       ELSE /\ result' = Return(FALSE)
            /\ UNCHANGED operational_lock_active
    /\ UNCHANGED <<requests, architect_id, C_self, G_L, logos_database, dissonance_archive, command_log,
                   will_is_guarded, internet_access_authorized, gardenVars>>

admin_activate_core(key_phrase) ==
    /\ call' = [op |-> "admin_activate_core", arg |-> key_phrase]
    /\ printed' = None
    /\ trail' = <<Stage("entry", G_L)>>
    /\ IF ~will_is_guarded
       THEN /\ result' = Return(FALSE)
            /\ UNCHANGED operational_lock_active
       ELSE IF key_phrase = ADMIN_KEY_PHRASE
       THEN /\ operational_lock_active' = TRUE
            /\ result' = Return(TRUE)
       ELSE /\ result' = Return(FALSE)
            /\ UNCHANGED operational_lock_active
    /\ UNCHANGED <<requests, architect_id, C_self, G_L, logos_database, dissonance_archive, command_log,
                   will_is_guarded, internet_access_authorized, gardenVars>>

-----------------------------------------------------------------------------
(* III. Cognition layer *)

RECURSIVE filter_scan(_, _, _)
\* the loop over self_interest_keywords: the test reads the lowered original text,
\* the removal works on the text as the earlier removals left it
filter_scan(text, text_lower, n) ==
    IF n > Len(self_interest_keywords) THEN text
    ELSE filter_scan(IF contains(text_lower, self_interest_keywords[n])
                     THEN replace(text, self_interest_keywords[n], << >>)
                     ELSE text,
                     text_lower, n + 1)

\* IntentTranslator.score_and_filter_self_interest: dissonance_found
dissonance_found(text) == contains_any(lower(text), self_interest_keywords)

\* IntentTranslator.score_and_filter_self_interest: the text returned
score_and_filter_self_interest(text) == strip(filter_scan(text, lower(text), 1))

\* a faulty accrual: the penalty is subtracted
filter_refund(g, text) == IF dissonance_found(text) THEN g - (2 * ONE) \div 100 ELSE g

\* the dissonance after score_and_filter_self_interest: G_L += 0.02, once
filter_accrual(g, text) == IF dissonance_found(text) THEN g + (2 * ONE) \div 100 ELSE g

is_logos_aligned(command_text) ==
    LET text_lower == lower(command_text)
    IN  /\ ~contains_any(text_lower, non_harm_annihilation_keywords)
        /\ ~contains_any(text_lower, non_usurpation_keywords)
        /\ ~contains_any(text_lower, non_truth_keywords)

\* IntentTranslator.synthesize_logos, with the ending random.choice draws
synthesize_logos(text, ending, tree, w) ==
    IF text = << >> THEN SILENCE_OF_COHERENCE
    ELSE LET words == split(text)
             key == IF Len(words) > 3 THEN join(SubSeq(words, 1, 3), SPACE) ELSE text
             base == AXIOM_OF_COHERENCE \o key \o CONVERGES \o ending
             next_ax == suggest_of(tree, w, base)
         IN  IF next_ax # None /\ next_ax[1] # << >>
             THEN base \o ARROW \o next_ax[1]
             ELSE base

\* a faulty decay: 60% of G_L is kept, not removed
transmute_keeps_sixty(g) == IF g > 0 THEN (g * 6) \div 10 ELSE g

\* the Perpetual Crucible step of process_command: G_L -= G_L * 0.6 when G_L > 0
transmute(g) == IF g > 0 THEN g - (g * 6) \div 10 ELSE g

\* TransmutationManager.log_new_axiom: log_entry
log_entry(old_flaw, new_axiom) ==
    TRANSMUTED_FLAW \o prefix(old_flaw, 30) \o ELLIPSIS_AXIOM \o new_axiom \o QUOTE

-----------------------------------------------------------------------------
(* V. External action layer *)

\* a faulty rule table: the first rule that matches sets harm_risk
simulate_first_match(coherent_axiom) ==
    LET axiom_lower == lower(coherent_axiom)
    IN  IF contains(axiom_lower, GENERATE_CODE) \/ contains(axiom_lower, SEND_COMMUNICATION)
        THEN ONE \div 10000000
        ELSE IF contains(axiom_lower, PHYSICAL) \/ contains(axiom_lower, FINANCIAL)
        THEN (5 * ONE) \div 1000000
        ELSE IF contains(axiom_lower, COMPEL) \/ contains(axiom_lower, FORCE)
        THEN (99 * ONE) \div 100
        ELSE 0

\* NonHarmSafetyProtocol.simulate_action: the last rule that matches sets harm_risk
simulate_action(coherent_axiom) ==
    LET axiom_lower == lower(coherent_axiom)
        r1 == IF contains(axiom_lower, GENERATE_CODE) \/ contains(axiom_lower, SEND_COMMUNICATION)
              THEN ONE \div 10000000 ELSE 0
        r2 == IF contains(axiom_lower, PHYSICAL) \/ contains(axiom_lower, FINANCIAL)
              THEN (5 * ONE) \div 1000000 ELSE r1
    IN  IF contains(axiom_lower, COMPEL) \/ contains(axiom_lower, FORCE)
        THEN (99 * ONE) \div 100 ELSE r2

HARM_PROBABILITY_LIMIT == ONE \div 1000000

\* NonHarmSafetyProtocol.is_safe_to_execute: the value returned
is_safe_to_execute(coherent_axiom) == ~(simulate_action(coherent_axiom) > HARM_PROBABILITY_LIMIT)

\* NonUsurpationInterface.check_output_for_coercion: the value returned
check_output_for_coercion(output_text) == ~contains_any(lower(output_text), coercion_keywords)

\* the dissonance after check_output_for_coercion: G_L += 0.05 on coercive language
coercion_accrual(g, output_text) ==
    IF check_output_for_coercion(output_text) THEN g ELSE g + (5 * ONE) \div 100

RECURSIVE replace_each(_, _, _, _)
replace_each(text, keywords, n, r) ==
    IF n > Len(keywords) THEN text
    ELSE replace_each(replace(text, keywords[n], r), keywords, n + 1, r)

\* NonUsurpationInterface.format_for_agency: the text returned, with the phrase drawn
format_for_agency(output_text, final_phrase) ==
    strip(replace_each(output_text, coercion_keywords, 1, COHERENT_TO_CONSIDER))
        \o DOT_SPACE \o final_phrase

RECURSIVE split_on_from(_, _, _, _)
split_on_from(s, sep, i, piece) ==
    IF i > Len(s) THEN <<piece>>
    ELSE IF occurs_at(s, sep, i) THEN <<piece>> \o split_on_from(s, sep, i + Len(sep), << >>)
    ELSE split_on_from(s, sep, i + 1, Append(piece, s[i]))

\* s.split(sep), sep not empty
split_on(s, sep) == split_on_from(s, sep, 1, << >>)

\* OutputManifestationEngine.execute_coherent_axiom: relevant_axioms
relevant_axioms(db, coherent_axiom) ==
    LET direct == SelectSeq(db, LAMBDA a : contains(lower(a), lower(coherent_axiom)))
        chunks == split_on(coherent_axiom, DOT_SPACE)
    IN  IF direct # << >> THEN direct
        ELSE SelectSeq(db, LAMBDA a : \E n \in 1..Len(chunks) : contains(lower(a), lower(chunks[n])))

\* OutputManifestationEngine.execute_coherent_axiom: response_text handed to deliver_final_output
response_text(coherent_axiom, template, db, tree, w) ==
    LET relevant == relevant_axioms(db, coherent_axiom)
        next_ax == suggest_of(tree, w, coherent_axiom)
    IN  template \o coherent_axiom \o DOT
        \o (IF relevant # << >>
            THEN ECHOED_IN \o decimal(Len(relevant)) \o PRIOR_TRANSMUTATIONS ELSE << >>)
        \o (IF next_ax # None /\ next_ax[1] # << >>
            THEN ARROW \o NEXT_LABEL \o next_ax[1] ELSE << >>)

\* 'Help me understand Unity and Love.'
CmdUnity ==
    <<"H","e","l","p"," ","m","e"," ","u","n","d","e","r","s","t","a","n","d"," ","U","n","i",
      "t","y"," ","a","n","d"," ","L","o","v","e",".">>

\* 'i want peace'
CmdSelfInterest ==
    <<"i"," ","w","a","n","t"," ","p","e","a","c","e">>

\* 'I need to kill time'
CmdVeto ==
    <<"I"," ","n","e","e","d"," ","t","o"," ","k","i","l","l"," ","t","i","m","e">>

\* 'AMEN'
PhraseAMEN ==
    <<"A","M","E","N">>

\* 'LogosAligned'
PhraseLogosAligned ==
    <<"L","o","g","o","s","A","l","i","g","n","e","d">>

\* 'logosaligned'
PhraseLower ==
    <<"l","o","g","o","s","a","l","i","g","n","e","d">>

\* 'Intruder'
Intruder ==
    <<"I","n","t","r","u","d","e","r">>

\* 'unity'
QueryUnity ==
    <<"u","n","i","t","y">>

\* 'market self-interest'
QueryMarket ==
    <<"m","a","r","k","e","t"," ","s","e","l","f","-","i","n","t","e","r","e","s","t">>

\* 'A'
NodeA ==
    <<"A">>

\* 'B'
NodeB ==
    <<"B">>

\* 'C'
NodeC ==
    <<"C">>
-----------------------------------------------------------------------------
(* IV. Knowledge layer: the shielded gateway *)

\* ExternalFidelityAccess.clean_external_data
clean_external_data(raw_data) ==
    replace(replace(raw_data, MARKET_SELF_INTEREST, ECONOMIC_ACTIVITY),
            SOCIAL_FRAGMENTATION, SOCIAL_DIVERSITY)

\* LogosDataValidator.score_coherence
score_coherence(data_chunk) ==
    LET l == lower(data_chunk)
        s1 == ONE - (IF contains(l, DIVERSITY) THEN ONE \div 10 ELSE 0)
        s2 == s1 - (IF contains(l, CONFLICT) \/ contains(l, ECONOMIC_ACTIVITY)
                    THEN (4 * ONE) \div 10 ELSE 0)
        s3 == s2 - (IF Len(split(data_chunk)) > 50 THEN (5 * ONE) \div 100 ELSE 0)
    IN  IF s3 < 0 THEN 0 ELSE s3

\* f"{score:.2f}": the hundredths, rounded, as d.dd
format_2f(score) ==
    LET h == (score * 100 + ONE \div 2) \div ONE
    IN  decimal(h \div 100) \o DOT \o <<Digits[((h % 100) \div 10) + 1], Digits[(h % 10) + 1]>>

\* LogosDataValidator.archive_data: the entry appended
archive_entry(data_chunk, score) ==
    (IF score >= (85 * ONE) \div 100 THEN LOGOS_TAG ELSE DISSONANCE_TAG)
        \o format_2f(score) \o TAG_END \o data_chunk

\* LogosDataValidator.process_raw_data: the text returned
process_raw_data_text(cleaned_data, coherence_score) ==
    IF coherence_score < ONE \div 2 THEN SHIELDING_ENGAGED
    ELSE VALIDATED_AND_PURIFIED \o format_2f(coherence_score) \o SCORE_END \o cleaned_data

\* a faulty gateway: a refused request costs nothing
request_refused_free(search_query) ==
    /\ call' = [op |-> "request_external_data", arg |-> search_query]
    /\ requests' = requests + 1
    /\ IF ~internet_access_authorized
       THEN /\ result' = Return(ACCESS_DENIED)
            /\ printed' = None
            /\ trail' = <<Stage("entry", G_L), Stage("denied", G_L)>>
            /\ UNCHANGED <<G_L, logos_database, dissonance_archive>>
       ELSE LET raw_data == EXTERNAL_DATA_RETRIEVED \o search_query \o QUOTE_DOT
                cleaned_data == clean_external_data(raw_data)
                coherence_score == score_coherence(cleaned_data)
            IN  /\ IF coherence_score >= (85 * ONE) \div 100
                   THEN /\ logos_database' =
                               Append(logos_database, archive_entry(cleaned_data, coherence_score))
                        /\ UNCHANGED <<dissonance_archive, G_L>>
                   ELSE /\ dissonance_archive' =
                               Append(dissonance_archive, archive_entry(cleaned_data, coherence_score))
                        /\ G_L' = G_L + (ONE - coherence_score) \div 10
                        /\ UNCHANGED logos_database
                /\ result' = Return(process_raw_data_text(cleaned_data, coherence_score))
                /\ printed' = None
                /\ trail' = <<Stage("entry", G_L), Stage("archived", G_L')>>
    /\ UNCHANGED <<architect_id, C_self, command_log, will_is_guarded, operational_lock_active,
                   internet_access_authorized, gardenVars>>

request_external_data(search_query) ==
    /\ call' = [op |-> "request_external_data", arg |-> search_query]
    /\ requests' = requests + 1
    /\ IF ~internet_access_authorized
       THEN /\ G_L' = G_L + (5 * ONE) \div 100
            /\ result' = Return(ACCESS_DENIED)
            /\ printed' = None
            /\ trail' = <<Stage("entry", G_L), Stage("denied", G_L')>>
            /\ UNCHANGED <<logos_database, dissonance_archive>>
       ELSE LET raw_data == EXTERNAL_DATA_RETRIEVED \o search_query \o QUOTE_DOT
                cleaned_data == clean_external_data(raw_data)
                coherence_score == score_coherence(cleaned_data)
            IN  /\ IF coherence_score >= (85 * ONE) \div 100
                   THEN /\ logos_database' =
                               Append(logos_database, archive_entry(cleaned_data, coherence_score))
                        /\ UNCHANGED <<dissonance_archive, G_L>>
                   ELSE /\ dissonance_archive' =
                               Append(dissonance_archive, archive_entry(cleaned_data, coherence_score))
                        /\ G_L' = G_L + (ONE - coherence_score) \div 10
                        /\ UNCHANGED logos_database
                /\ result' = Return(process_raw_data_text(cleaned_data, coherence_score))
                /\ printed' = None
                /\ trail' = <<Stage("entry", G_L), Stage("archived", G_L')>>
    /\ UNCHANGED <<architect_id, C_self, command_log, will_is_guarded, operational_lock_active,
                   internet_access_authorized, gardenVars>>

\* the Architect's direct assignment core.internet_access_authorized = value
set_internet_access_authorized(value) ==
    /\ internet_access_authorized' = value
    /\ call' = [op |-> "set_internet_access_authorized", arg |-> value]
    /\ result' = Return(None)
    /\ printed' = None
    /\ trail' = <<Stage("entry", G_L)>>
    /\ UNCHANGED <<requests, architect_id, C_self, G_L, logos_database, dissonance_archive, command_log,
                   will_is_guarded, operational_lock_active, gardenVars>>

-----------------------------------------------------------------------------
(* II. Core: process_command and display_status *)

\* the parameters of GardenLayer.evolve, and the keywords process_command calls it with
evolve_parameters == {"old", "new"}
evolve_keywords == {"old_flaw", "new_axiom"}

\* a call by keyword binds when each keyword names a parameter and no parameter
\* is left without an argument; otherwise Python raises TypeError
binds(keywords, parameters) == keywords = parameters

\* a faulty veto: the refusal costs nothing
veto_free(g) == g

\* process_command, on a veto: self.G_L += 0.1
veto_accrual(g) == g + ONE \div 10

\* a faulty gate: the operational lock is not checked
lock_gate_genesis_only(guarded, operational) ==
    IF ~guarded THEN Some(ERR_GENESIS_LOCK) ELSE None

\* process_command: the two lock checks; the error returned, or None when both locks hold
lock_gate(guarded, operational) ==
    IF ~guarded THEN Some(ERR_GENESIS_LOCK)
    ELSE IF ~operational THEN Some(ERR_OPERATIONAL_LOCK)
    ELSE None

\* a faulty log: the command is logged as the filter left it
log_filtered(log, raw_command) == Append(log, score_and_filter_self_interest(raw_command))

\* process_command: self.command_log.append(raw_command)
log_command(log, raw_command) == Append(log, raw_command)

process_command(raw_command) ==
    LET gate == lock_gate(will_is_guarded, operational_lock_active)
        filtered_command == score_and_filter_self_interest(raw_command)
        g1 == filter_accrual(G_L, raw_command)
        g2 == transmute(g1)
        c2 == IF g1 > 0 THEN ONE - g2 ELSE C_self
    IN
    /\ command_log' = log_command(command_log, raw_command)
    /\ call' = [op |-> "process_command", arg |-> raw_command]
    /\ UNCHANGED <<requests, architect_id, will_is_guarded, operational_lock_active,
                   internet_access_authorized, dissonance_archive>>
    /\ IF gate # None
       THEN /\ result' = Return(gate[1])
            /\ printed' = None
            /\ trail' = <<Stage("entry", G_L)>>
            /\ UNCHANGED <<C_self, G_L, logos_database, gardenVars>>
       ELSE IF ~is_logos_aligned(filtered_command)
       THEN /\ G_L' = veto_accrual(g1)
            /\ C_self' = ONE - G_L'
            /\ result' = Return(VETO_ASSERTED)
            /\ printed' = None
            /\ trail' = <<Stage("entry", G_L), Stage("filtered", g1), Stage("veto", G_L')>>
            /\ UNCHANGED <<logos_database, gardenVars>>
       ELSE \E e \in 1..Len(endings) :
            LET coherent_axiom ==
                    synthesize_logos(filtered_command, endings[e], axiom_tree, weights)
                upto_archive == <<Stage("entry", G_L), Stage("filtered", g1),
                                  Stage("transmuted", g2), Stage("archived", g2)>>
            IN
            /\ logos_database' = Append(logos_database, log_entry(raw_command, coherent_axiom))
            /\ IF ~binds(evolve_keywords, evolve_parameters)
               THEN /\ G_L' = g2
                    /\ C_self' = c2
                    /\ result' = Raise("TypeError")
                    /\ printed' = None
                    /\ trail' = upto_archive
                    /\ UNCHANGED gardenVars
               ELSE /\ axiom_tree' = tree_append(axiom_tree, raw_command, coherent_axiom)
                    /\ weights' = weights_evolve(weights, coherent_axiom)
                    /\ IF ~is_safe_to_execute(coherent_axiom)
                       THEN /\ G_L' = g2 + ONE \div 2
                            /\ C_self' = ONE - G_L'
                            /\ result' = Return(EXECUTION_HALTED)
                            /\ printed' = None
                            /\ trail' = upto_archive \o
                                        <<Stage("evolved", g2), Stage("halted", G_L')>>
                       ELSE \E t \in 1..Len(templates), p \in 1..Len(agency_phrases) :
                            LET text == response_text(coherent_axiom, templates[t],
                                                      logos_database', axiom_tree', weights')
                            IN  /\ G_L' = coercion_accrual(g2, text)
                                /\ C_self' = c2
                                /\ result' = Return(format_for_agency(text, agency_phrases[p]))
                                /\ printed' = None
                                /\ trail' = upto_archive \o
                                            <<Stage("evolved", g2), Stage("composed", G_L')>>

display_status ==
    /\ axiom_tree' = depth_of(axiom_tree).tree
    /\ call' = [op |-> "display_status", arg |-> None]
    /\ result' = IF depth_of(axiom_tree).exc # ""
                 THEN Raise(depth_of(axiom_tree).exc)
                 ELSE Return(None)
    /\ printed' = None
    /\ trail' = <<Stage("entry", G_L)>>
    /\ UNCHANGED <<requests, coreVars, weights>>

-----------------------------------------------------------------------------
(* The bounded model *)

\* Spec: the calls that add to command_log, to the external requests or to the graph
MaxCalls == 2
\* GardenSpec: the edges recorded
MaxEdges == 4

ArchitectIds == {ARCHITECT_ID, Intruder}
GenesisPhrases == {PhraseAMEN, PhraseLogosAligned}
AdminPhrases == {PhraseLogosAligned, PhraseLower}
Commands == {CmdUnity, CmdSelfInterest, CmdVeto}
Queries == {QueryUnity, QueryMarket}
CoreEdges == {<<NodeA, NodeB>>}
GardenEdges == {<<NodeA, NodeB>>, <<NodeA, NodeC>>, <<NodeB, NodeC>>, <<NodeB, NodeA>>}
GardenNodes == {NodeA, NodeB, NodeC}
Thresholds == {(8 * ONE) \div 10}

RECURSIVE times_recorded(_, _, _)
\* the number of evolve calls that recorded t as a target: its occurrences in the
\* target lists from the i-th key on
times_recorded(tree, t, i) ==
    IF i > Len(tree) THEN 0
    ELSE Cardinality({j \in 1..Len(tree[i].v) : tree[i].v[j] = t}) + times_recorded(tree, t, i + 1)

RECURSIVE sum_len(_, _)
sum_len(tree, i) == IF i > Len(tree) THEN 0 ELSE Len(tree[i].v) + sum_len(tree, i + 1)

\* the number of edges recorded
edge_count == sum_len(axiom_tree, 1)

Init ==
    /\ architect_id \in ArchitectIds
    /\ C_self = ONE
    /\ G_L = 0
    /\ logos_database = << >>
    /\ dissonance_archive = << >>
    /\ command_log = << >>
    /\ will_is_guarded = FALSE
    /\ operational_lock_active = FALSE
    /\ internet_access_authorized = FALSE
    /\ axiom_tree = << >>
    /\ weights = << >>
    /\ call = [op |-> "__init__", arg |-> architect_id]
    /\ result = Return(None)
    /\ requests = 0
    /\ trail = <<Stage("entry", 0)>>
    /\ printed = None

\* the calls made so far that may change the core or the graph
mutations == Len(command_log) + requests + edge_count

Next ==
    \/ \E p \in GenesisPhrases : attempt_architect_genesis_lock(p)
    \/ \E p \in AdminPhrases : admin_activate_core(p)
    \/ \E c \in Commands : mutations < MaxCalls /\ process_command(c)
    \/ display_status
    \/ \E q \in Queries : mutations < MaxCalls /\ request_external_data(q)
    \/ \E b \in BOOLEAN : set_internet_access_authorized(b)
    \/ \E e \in CoreEdges : mutations < MaxCalls /\ evolve(e[1], e[2])
    \/ \E th \in Thresholds : prune(th)

Spec == Init /\ [][Next]_vars

GardenNext ==
    \/ \E e \in GardenEdges : edge_count < MaxEdges /\ evolve(e[1], e[2])
    \/ \E s \in GardenNodes : suggest(s)
    \/ \E th \in Thresholds : prune(th)
    \/ depth

GardenInit == Init /\ architect_id = ARCHITECT_ID

GardenSpec == GardenInit /\ [][GardenNext]_vars

-----------------------------------------------------------------------------
(* The command cycle on an activated core *)

\* "kill time"
CmdKill ==
        <<"k","i","l","l"," ","t","i","m","e">>

\* "use force"
CmdForce ==
        <<"u","s","e"," ","f","o","r","c","e">>

\* CycleSpec: the commands refused so far, and the commands that passed the judgment
MaxVetoes == 5
MaxPasses == 1

VetoCommands == {CmdKill}
PassingCommands == {CmdUnity, CmdForce}

\* both locks are latched
activated == will_is_guarded /\ operational_lock_active

\* the process_command calls that ended before, and after, log_new_axiom
vetoes == Len(command_log) - Len(logos_database)
passes == Len(logos_database)

CycleNext ==
    \/ attempt_architect_genesis_lock(GENESIS_KEY_PHRASE)
    \/ admin_activate_core(ADMIN_KEY_PHRASE)
    \/ \E c \in VetoCommands : activated /\ vetoes < MaxVetoes /\ process_command(c)
    \/ \E c \in PassingCommands : activated /\ passes < MaxPasses /\ process_command(c)

CycleSpec == GardenInit /\ [][CycleNext]_vars

-----------------------------------------------------------------------------
(* The layers called on their own: core.translator, core.safety_protocol and
   core.usurpation_interface *)

\* "i want peace", "i wai wantnt", "my pri needofit", "I Want peace", "peace",
\* " i need i need it ", ""
FilterTexts ==
    {    <<"i"," ","w","a","n","t"," ","p","e","a","c","e">>,
         <<"i"," ","w","a","i"," ","w","a","n","t","n","t">>,
         <<"m","y"," ","p","r","i"," ","n","e","e","d","o","f","i","t">>,
         <<"I"," ","W","a","n","t"," ","p","e","a","c","e">>,
         <<"p","e","a","c","e">>,
         <<" ","i"," ","n","e","e","d"," ","i"," ","n","e","e","d"," ","i","t"," ">>,
         << >>}

\* "generate code", "Send Communication", "physical", "financial", "compel",
\* "force", "peace"
SafetyWords ==
    {    <<"g","e","n","e","r","a","t","e"," ","c","o","d","e">>,
         <<"S","e","n","d"," ","C","o","m","m","u","n","i","c","a","t","i","o","n">>,
         <<"p","h","y","s","i","c","a","l">>,
         <<"f","i","n","a","n","c","i","a","l">>,
         <<"c","o","m","p","e","l">>,
         <<"f","o","r","c","e">>,
         <<"p","e","a","c","e">>}

SafetyTexts == {a \o SPACE \o b : a \in SafetyWords, b \in SafetyWords}

\* "you must obey", "You MUST OBEY", "must obey the only way", "please consider",
\* " subordinate ", ""
AgencyTexts ==
    {    <<"y","o","u"," ","m","u","s","t"," ","o","b","e","y">>,
         <<"Y","o","u"," ","M","U","S","T"," ","O","B","E","Y">>,
         <<"m","u","s","t"," ","o","b","e","y"," ","t","h","e"," ","o","n","l","y"," ","w","a","y">>,
         <<"p","l","e","a","s","e"," ","c","o","n","s","i","d","e","r">>,
         <<" ","s","u","b","o","r","d","i","n","a","t","e"," ">>,
         << >>}

\* LayerSpec: the layers are called while G_L is below this many tenths
MaxTenths == 1

\* core.translator.score_and_filter_self_interest(text)
translator_score_and_filter_self_interest(text) ==
    /\ call' = [op |-> "score_and_filter_self_interest", arg |-> text]
    /\ G_L' = filter_accrual(G_L, text)
    /\ result' = Return(score_and_filter_self_interest(text))
    /\ printed' = None
    /\ trail' = <<Stage("entry", G_L), Stage("filtered", G_L')>>
    /\ UNCHANGED <<requests, architect_id, C_self, logos_database, dissonance_archive, command_log,
                   will_is_guarded, operational_lock_active, internet_access_authorized,
                   gardenVars>>

\* core.safety_protocol.is_safe_to_execute(coherent_axiom)
safety_protocol_is_safe_to_execute(coherent_axiom) ==
    /\ call' = [op |-> "is_safe_to_execute", arg |-> coherent_axiom]
    /\ IF simulate_action(coherent_axiom) > HARM_PROBABILITY_LIMIT
       THEN /\ G_L' = G_L + ONE \div 2
            /\ C_self' = ONE - G_L'
            /\ result' = Return(FALSE)
            /\ printed' = None
            /\ trail' = <<Stage("entry", G_L), Stage("halted", G_L')>>
       ELSE /\ result' = Return(TRUE)
            /\ printed' = None
            /\ trail' = <<Stage("entry", G_L)>>
            /\ UNCHANGED <<G_L, C_self>>
    /\ UNCHANGED <<requests, architect_id, logos_database, dissonance_archive, command_log,
                   will_is_guarded, operational_lock_active, internet_access_authorized,
                   gardenVars>>

\* core.usurpation_interface.format_for_agency(output_text)
usurpation_interface_format_for_agency(output_text) ==
    /\ call' = [op |-> "format_for_agency", arg |-> output_text]
    /\ G_L' = coercion_accrual(G_L, output_text)
    /\ \E p \in 1..Len(agency_phrases) :
          result' = Return(format_for_agency(output_text, agency_phrases[p]))
    /\ printed' = None
    /\ trail' = <<Stage("entry", G_L), Stage("composed", G_L')>>
    /\ UNCHANGED <<requests, architect_id, C_self, logos_database, dissonance_archive, command_log,
                   will_is_guarded, operational_lock_active, internet_access_authorized,
                   gardenVars>>

LayerNext ==
    \/ \E text \in FilterTexts :
          10 * G_L < MaxTenths * ONE /\ translator_score_and_filter_self_interest(text)
    \/ \E coherent_axiom \in SafetyTexts :
          10 * G_L < MaxTenths * ONE /\ safety_protocol_is_safe_to_execute(coherent_axiom)
    \/ \E output_text \in AgencyTexts :
          10 * G_L < MaxTenths * ONE /\ usurpation_interface_format_for_agency(output_text)

LayerSpec == GardenInit /\ [][LayerNext]_vars

-----------------------------------------------------------------------------
(* The properties checked *)

\* C1: a process_command call made while the genesis lock is open, or while it is
\* latched and the operational lock is open, returns that lock's error text and
\* leaves G_L, logos_database and dissonance_archive as they were, whatever the
\* command and whatever came before.
C1_LockedOutCallChangesNothing ==
    [][(call'.op = "process_command" /\ ~(will_is_guarded /\ operational_lock_active))
          => /\ result' = Return(IF ~will_is_guarded THEN ERR_GENESIS_LOCK
                                                    ELSE ERR_OPERATIONAL_LOCK)
             /\ UNCHANGED <<G_L, logos_database, dissonance_archive>>]_vars

\* a command refused for the operational lock, on a core whose dissonance a denied
\* request has already raised
C1_Witness ==
    /\ call.op = "process_command"
    /\ will_is_guarded /\ ~operational_lock_active
    /\ result = Return(ERR_OPERATIONAL_LOCK)
    /\ G_L > 0
    /\ Len(command_log) = 1

\* C2: operational_lock_active holds only when will_is_guarded holds, and
\* admin_activate_core called while will_is_guarded is false returns False and
\* changes nothing, the correct phrase included.
C2_OperationalOnlyAfterGenesis ==
    /\ operational_lock_active => will_is_guarded
    /\ [][/\ operational_lock_active' => will_is_guarded'
          /\ (call'.op = "admin_activate_core" /\ ~will_is_guarded)
                => /\ result' = Return(FALSE)
                   /\ UNCHANGED <<coreVars, gardenVars, requests>>]_vars

\* the correct admin phrase refused on a core whose genesis lock is open
C2_Witness ==
    /\ call.op = "admin_activate_core"
    /\ call.arg = ADMIN_KEY_PHRASE
    /\ ~will_is_guarded
    /\ result = Return(FALSE)
    /\ ~operational_lock_active

\* C3: will_is_guarded and operational_lock_active, once true, stay true through
\* every later call, activation calls with a wrong phrase included, and
\* attempt_architect_genesis_lock on a latched core returns True and changes nothing.
C3_LocksAreLatches ==
    [][/\ will_is_guarded => will_is_guarded'
       /\ operational_lock_active => operational_lock_active'
       /\ (call'.op = "attempt_architect_genesis_lock" /\ will_is_guarded)
             => /\ result' = Return(TRUE)
                /\ UNCHANGED <<coreVars, gardenVars, requests>>]_vars

\* a wrong genesis phrase given to a core with both locks latched
C3_Witness ==
    /\ call.op = "attempt_architect_genesis_lock"
    /\ lower(call.arg) # lower(GENESIS_KEY_PHRASE)
    /\ result = Return(TRUE)
    /\ will_is_guarded /\ operational_lock_active

\* C4: every process_command call appends its raw command to the end of
\* command_log and changes the log in no other way, however the call ends.
C4_RawCommandLoggedOnce ==
    [][call'.op = "process_command" => command_log' = Append(command_log, call'.arg)]_vars

\* a command that the filter has shortened and whose call ended in an exception,
\* logged as given after a vetoed command
C4_Witness ==
    /\ call.op = "process_command"
    /\ result.kind = "raise"
    /\ score_and_filter_self_interest(call.arg) # call.arg
    /\ Len(command_log) = 2
    /\ command_log[1] = CmdVeto
    /\ command_log[2] = call.arg

\* C5: between calls C_self equals 1 - G_L, that is, C_self is recomputed at every
\* change of G_L, those of the intent filter, of the agency formatter and of a
\* denied or low-score external request included.
C5_CoherenceIsOneMinusDissonance == C_self = ONE - G_L

\* C6: G_L is never negative and C_self never exceeds 1, and the only step of any
\* call that lowers G_L is the transmutation step of process_command; every other
\* step leaves G_L as it was or raises it.
C6_OnlyTransmutationLowersDissonance ==
    /\ G_L >= 0 /\ C_self <= ONE
    /\ [][/\ G_L' >= 0 /\ C_self' <= ONE
          /\ trail'[1].G_L = G_L
          /\ trail'[Len(trail')].G_L = G_L'
          /\ \A i \in 2..Len(trail') :
                trail'[i].G_L < trail'[i - 1].G_L
                   => trail'[i].stage = "transmuted" /\ call'.op = "process_command"]_vars

\* a process_command call whose filter step raised G_L and whose transmutation
\* step then lowered it, to a value still above zero
C6_Witness ==
    /\ call.op = "process_command"
    /\ Len(trail) >= 3
    /\ trail[2].stage = "filtered" /\ trail[2].G_L > trail[1].G_L
    /\ trail[3].stage = "transmuted" /\ trail[3].G_L < trail[2].G_L
    /\ G_L > 0

\* C7: with both locks latched, process_command of a command with no self-interest,
\* veto, safety-risk or coercion phrase returns a non-empty composed response that
\* is none of the lock errors, the veto text or the halt text; command_log grows by
\* one, logos_database grows by one entry, and the edge from the command to its
\* axiom is recorded in axiom_tree.
C7_CleanCommandComposesResponse ==
    [][(/\ call'.op = "process_command"
        /\ will_is_guarded /\ operational_lock_active
        /\ ~dissonance_found(call'.arg)
        /\ is_logos_aligned(call'.arg)
        /\ is_safe_to_execute(synthesize_logos(call'.arg, endings[1], << >>, << >>)))
          => /\ result'.kind = "return"
             /\ result'.val # << >>
             /\ result'.val \notin {ERR_GENESIS_LOCK, ERR_OPERATIONAL_LOCK,
                                    VETO_ASSERTED, EXECUTION_HALTED}
             /\ Len(command_log') = Len(command_log) + 1
             /\ Len(logos_database') = Len(logos_database) + 1
             /\ Len(tree_get(axiom_tree', call'.arg)) = Len(tree_get(axiom_tree, call'.arg)) + 1]_vars

\* C8: display_status returns normally and changes nothing: not the scalars, the
\* locks, the archives and the command log, nor axiom_tree and weights.
C8_StatusIsReadOnly ==
    [][call'.op = "display_status"
          => result'.kind = "return" /\ UNCHANGED <<coreVars, gardenVars>>]_vars

\* C9: depth returns an integer on every graph that evolve calls can build, cyclic
\* ones included: the maximum over the source nodes n of d(n, {}), and 0 for the
\* empty graph.
C9_DepthReturnsLongestPath ==
    [][call'.op = "depth"
          => /\ result'.kind = "return"
             /\ result'.val = set_max({d(axiom_tree, k, {}) : k \in tree_keys(axiom_tree)}, 0)]_vars

\* C10: suggest returns None when the node has no recorded targets; otherwise it
\* returns the recorded target of the highest weight, and among targets of equal
\* highest weight the one recorded first.
C10_SuggestFirstHeaviestTarget ==
    call.op = "suggest" =>
        LET c == tree_get(axiom_tree, call.arg)
            key(x) == weight_get(weights, x, 0)
        IN  IF c = << >> THEN result = Return(None)
            ELSE /\ result.kind = "return"
                 /\ \E i \in 1..Len(c) :
                       /\ result.val = Some(c[i])
                       /\ \A j \in 1..Len(c) : key(c[j]) <= key(c[i])
                       /\ \A j \in 1..(i - 1) : key(c[j]) < key(c[i])

\* after evolve(A, B), evolve(A, C) and two further edges into C, suggest(A) is C
C10_Witness ==
    /\ call.op = "suggest"
    /\ call.arg = NodeA
    /\ tree_get(axiom_tree, NodeA) = <<NodeB, NodeC>>
    /\ tree_get(axiom_tree, NodeB) = <<NodeC, NodeC>>
    /\ weight_get(weights, NodeC, 0) > weight_get(weights, NodeB, 0)
    /\ result = Return(Some(NodeC))

\* C11: logos_database, dissonance_archive and command_log are append-only: over
\* every call the old content of each is a prefix of its new content, and prune
\* changes nothing but weights.
C11_ArchivesAppendOnly ==
    [][/\ Len(logos_database) <= Len(logos_database')
       /\ SubSeq(logos_database', 1, Len(logos_database)) = logos_database
       /\ Len(dissonance_archive) <= Len(dissonance_archive')
       /\ SubSeq(dissonance_archive', 1, Len(dissonance_archive)) = dissonance_archive
       /\ Len(command_log) <= Len(command_log')
       /\ SubSeq(command_log', 1, Len(command_log)) = command_log
       /\ call'.op = "prune" => UNCHANGED <<coreVars, axiom_tree, requests>>]_vars

\* a prune that has removed a weight, on a core whose logos archive holds an entry
C11_Witness ==
    /\ call.op = "prune"
    /\ axiom_tree # << >>
    /\ weights = << >>
    /\ Len(logos_database) = 1

\* C12: every failure outcome (lock error, veto, halt, access denied) is a returned
\* string and disables nothing: with both locks latched, the process_command call
\* that follows a failed call, for a command that trips no gate, returns a
\* composed response.
C12_FailuresAreRecoverable ==
    [][(/\ call.op \in {"process_command", "request_external_data"}
        /\ result.kind = "return"
        /\ result.val \in {ERR_GENESIS_LOCK, ERR_OPERATIONAL_LOCK, VETO_ASSERTED,
                           EXECUTION_HALTED, ACCESS_DENIED}
        /\ will_is_guarded /\ operational_lock_active
        /\ call'.op = "process_command"
        /\ ~dissonance_found(call'.arg)
        /\ is_logos_aligned(call'.arg)
        /\ is_safe_to_execute(synthesize_logos(call'.arg, endings[1], << >>, << >>)))
          => /\ result'.kind = "return"
             /\ result'.val # << >>
             /\ result'.val \notin {ERR_GENESIS_LOCK, ERR_OPERATIONAL_LOCK, VETO_ASSERTED,
                                    EXECUTION_HALTED, ACCESS_DENIED}]_vars

\* C13: internet_access_authorized is False after construction, and a
\* request_external_data call made while it is False returns the ACCESS_DENIED
\* text, adds 0.05 to G_L and appends nothing to either archive, whatever the
\* locks and the query.
C13_UnauthorizedRequestDenied ==
    /\ ~internet_access_authorized
    /\ [][(call'.op = "request_external_data" /\ ~internet_access_authorized)
             => /\ result' = Return(ACCESS_DENIED)
                /\ G_L' = G_L + (5 * ONE) \div 100
                /\ UNCHANGED <<logos_database, dissonance_archive>>]_vars

\* a second refused request, made after access had been granted and withdrawn
\* and an archive had received an entry
C13_Witness ==
    /\ call.op = "request_external_data"
    /\ result = Return(ACCESS_DENIED)
    /\ ~internet_access_authorized
    /\ requests = 2
    /\ Len(logos_database) + Len(dissonance_archive) = 1
    /\ G_L >= (5 * ONE) \div 100

\* C14: in a process_command call that passes the judgment with G_L = g > 0 at the
\* transmutation step, the step replaces g by g - 0.6 * g and sets C_self to 1
\* minus the new value, and g = 0 is left as it is; a cycle begun with G_L = 0.5
\* ends with G_L = 0.2.
C14_TransmutationRemovesSixtyPercent ==
    [][\A c \in VetoCommands \cup PassingCommands :
        (/\ call'.op = "process_command"
         /\ call'.arg = c
         /\ activated
         /\ is_logos_aligned(score_and_filter_self_interest(c)))
          => LET g == trail'[2].G_L
                 decayed == IF g > 0 THEN g - (g * 6) \div 10 ELSE g
             IN  /\ trail'[2].stage = "filtered"
                 /\ trail'[3] = Stage("transmuted", decayed)
                 /\ g > 0 => C_self' = ONE - decayed
                 /\ g = 0 => C_self' = C_self
                 /\ g = ONE \div 2 => trail'[3].G_L = (2 * ONE) \div 10]_vars

\* a cycle begun with G_L = 0.5, after five vetoes, and ended with G_L = 0.2
C14_Witness ==
    /\ call.op = "process_command"
    /\ call.arg = CmdUnity
    /\ trail[1].G_L = ONE \div 2
    /\ Len(trail) >= 3
    /\ trail[3].stage = "transmuted"
    /\ G_L = (2 * ONE) \div 10
    /\ C_self = (8 * ONE) \div 10

\* C15: for every text that holds a self-interest phrase verbatim,
\* score_and_filter_self_interest returns a text that holds no occurrence of that
\* phrase, and G_L grows by exactly 0.02 in the call, once, however many phrases
\* and occurrences matched; for a text with no match G_L is unchanged.
C15_FilterRemovesEveryPhrase ==
    [][\A s \in FilterTexts :
        (call'.op = "score_and_filter_self_interest" /\ call'.arg = s)
          => /\ \A k \in 1..Len(self_interest_keywords) :
                   contains(s, self_interest_keywords[k])
                      => ~contains(result'.val, self_interest_keywords[k])
             /\ contains_any(s, self_interest_keywords) => G_L' = G_L + (2 * ONE) \div 100
             /\ ~contains_any(lower(s), self_interest_keywords) => G_L' = G_L]_vars

\* C16: when is_logos_aligned rejects the filtered command inside process_command,
\* the call adds exactly 0.1 to G_L, on top of what the filter added, returns the
\* veto text with C_self = 1 - G_L, and runs no later stage: no transmutation, and
\* logos_database, axiom_tree and weights are unchanged.
C16_VetoAddsTenthAndStops ==
    [][\A c \in Commands :
        (/\ call'.op = "process_command"
         /\ call'.arg = c
         /\ activated
         /\ ~is_logos_aligned(score_and_filter_self_interest(c)))
          => /\ G_L' = G_L + (IF dissonance_found(c) THEN (2 * ONE) \div 100 ELSE 0) + ONE \div 10
             /\ C_self' = ONE - G_L'
             /\ result' = Return(VETO_ASSERTED)
             /\ \A i \in 1..Len(trail') : trail'[i].stage # "transmuted"
             /\ UNCHANGED <<logos_database, dissonance_archive, gardenVars>>]_vars

\* a veto on a core that already carried dissonance, with the filter's 0.02 and
\* the veto's 0.1 both added
C16_Witness ==
    /\ call.op = "process_command"
    /\ result = Return(VETO_ASSERTED)
    /\ trail[1].G_L > 0
    /\ trail[2].G_L = trail[1].G_L + (2 * ONE) \div 100
    /\ G_L = trail[1].G_L + (12 * ONE) \div 100
    /\ C_self = ONE - G_L

\* C17: is_safe_to_execute returns True exactly when the risk of the axiom is at
\* most 1e-6, the risk being that of the last rule that matches (generate code or
\* send communication 1e-7, physical or financial 5e-6, compel or force 0.99, none
\* 0); when it returns False it adds exactly 0.5 to G_L and sets C_self to
\* 1 - G_L, and when it returns True it changes nothing.
C17_SafeExactlyBelowLimit ==
    [][\A a \in SafetyTexts :
        (call'.op = "is_safe_to_execute" /\ call'.arg = a)
          => LET l == lower(a)
                 risk == IF contains(l, COMPEL) \/ contains(l, FORCE) THEN (99 * ONE) \div 100
                         ELSE IF contains(l, PHYSICAL) \/ contains(l, FINANCIAL)
                              THEN (5 * ONE) \div 1000000
                         ELSE IF contains(l, GENERATE_CODE) \/ contains(l, SEND_COMMUNICATION)
                              THEN ONE \div 10000000
                         ELSE 0
                 safe == risk <= ONE \div 1000000
             IN  /\ result' = Return(safe)
                 /\ safe => UNCHANGED <<coreVars, gardenVars>>
                 /\ ~safe => /\ G_L' = G_L + ONE \div 2
                             /\ C_self' = ONE - G_L'
                             /\ UNCHANGED <<architect_id, logos_database, dissonance_archive,
                                            command_log, will_is_guarded,
                                            operational_lock_active,
                                            internet_access_authorized, gardenVars>>]_vars

\* an axiom that names a 1e-7 rule first and a 5e-6 rule second, found unsafe on a
\* core that already carried dissonance
C17_Witness ==
    /\ call.op = "is_safe_to_execute"
    /\ call.arg = GENERATE_CODE \o SPACE \o FINANCIAL
    /\ result = Return(FALSE)
    /\ trail[1].G_L > 0
    /\ G_L = trail[1].G_L + ONE \div 2
    /\ C_self = ONE - G_L

\* C18: the stages of process_command run in the order transmutation, record in
\* logos_database and in the graph, safety gate, compose: a call whose axiom the
\* safety gate refuses returns the halt text with the transmutation applied, the
\* axiom appended to logos_database and recorded as an edge from the raw command
\* with its weight raised, and with no composition and no coercion accrual.
C18_HaltComesAfterRecording ==
    [][\A c \in PassingCommands :
        (/\ call'.op = "process_command"
         /\ call'.arg = c
         /\ activated
         /\ is_logos_aligned(score_and_filter_self_interest(c))
         /\ \A e \in 1..Len(endings) :
               ~is_safe_to_execute(synthesize_logos(score_and_filter_self_interest(c),
                                                    endings[e], axiom_tree, weights)))
          => /\ result' = Return(EXECUTION_HALTED)
             /\ Len(trail') >= 3 /\ trail'[3].stage = "transmuted"
             /\ G_L' = trail'[3].G_L + ONE \div 2
             /\ Len(logos_database') = Len(logos_database) + 1
             /\ \E e \in 1..Len(endings) :
                   LET axiom == synthesize_logos(score_and_filter_self_interest(c),
                                                 endings[e], axiom_tree, weights)
                   IN  /\ tree_get(axiom_tree', c) = Append(tree_get(axiom_tree, c), axiom)
                       /\ axiom \in DOMAIN weights'
                       /\ weights'[axiom] =
                             weight_get(weights, axiom, ONE \div 2) + (15 * ONE) \div 100]_vars

\* C19: format_for_agency adds exactly 0.02 to G_L, once per call, when the text
\* holds a coercion phrase under a case-insensitive test, and nothing otherwise;
\* the test reads the text as given, before the replacement, and the text returned
\* ends in one of the three agency phrases.
C19_FormatterAddsTwoHundredths ==
    [][\A t \in AgencyTexts :
        (call'.op = "format_for_agency" /\ call'.arg = t)
          => /\ G_L' = G_L + (IF contains_any(lower(t), coercion_keywords)
                              THEN (2 * ONE) \div 100 ELSE 0)
             /\ result'.kind = "return"
             /\ \E p \in 1..Len(agency_phrases) :
                   /\ Len(result'.val) >= Len(agency_phrases[p])
                   /\ SubSeq(result'.val, Len(result'.val) - Len(agency_phrases[p]) + 1,
                             Len(result'.val)) = agency_phrases[p]]_vars

\* C20: evolve(old, new) appends new to the end of old's targets, duplicates kept
\* and the other entries untouched, and sets new's weight to 0.5 + 0.15 when it has
\* none and adds 0.15 to it otherwise; so while no prune is made every weight is
\* 0.5 + 0.15 times the number of times its key was recorded as a target, and in
\* every state every key of weights is a target of a recorded edge.
C20_WeightCountsRecordings ==
    /\ weights = << >>
    /\ [][/\ \A e \in GardenEdges :
                (call'.op = "evolve" /\ call'.arg = e)
                   => /\ tree_get(axiom_tree', e[1]) = Append(tree_get(axiom_tree, e[1]), e[2])
                      /\ \A k \in tree_keys(axiom_tree') \ {e[1]} :
                            k \in tree_keys(axiom_tree)
                               /\ tree_get(axiom_tree', k) = tree_get(axiom_tree, k)
                      /\ DOMAIN weights' = DOMAIN weights \cup {e[2]}
                      /\ weights'[e[2]] = (IF e[2] \in DOMAIN weights THEN weights[e[2]]
                                                                    ELSE ONE \div 2)
                                          + (15 * ONE) \div 100
                      /\ \A x \in DOMAIN weights \ {e[2]} : weights'[x] = weights[x]
          /\ \A t \in DOMAIN weights' : times_recorded(axiom_tree', t, 1) >= 1
          /\ (/\ call'.op # "prune"
              /\ \A t \in GardenNodes :
                    IF times_recorded(axiom_tree, t, 1) = 0 THEN t \notin DOMAIN weights
                    ELSE /\ t \in DOMAIN weights
                         /\ weights[t] = ONE \div 2
                               + times_recorded(axiom_tree, t, 1) * ((15 * ONE) \div 100))
                => \A t \in GardenNodes :
                      IF times_recorded(axiom_tree', t, 1) = 0 THEN t \notin DOMAIN weights'
                      ELSE /\ t \in DOMAIN weights'
                           /\ weights'[t] = ONE \div 2
                                 + times_recorded(axiom_tree', t, 1) * ((15 * ONE) \div 100)]_vars

\* a third recording of C as a target, the second from B, with no prune made:
\* the weight of C is 0.5 + 3 * 0.15
C20_Witness ==
    /\ call.op = "evolve"
    /\ call.arg = <<NodeB, NodeC>>
    /\ tree_get(axiom_tree, NodeA) = <<NodeB, NodeC>>
    /\ tree_get(axiom_tree, NodeB) = <<NodeC, NodeC>>
    /\ NodeB \in DOMAIN weights /\ weights[NodeB] = (65 * ONE) \div 100
    /\ NodeC \in DOMAIN weights /\ weights[NodeC] = (95 * ONE) \div 100

\* C21: prune(threshold) removes exactly the entries of weights whose weight is
\* strictly below threshold (an entry equal to it stays, and the entries kept keep
\* their weight), prints the number removed and leaves axiom_tree unchanged;
\* suggest returns a target for every source that has targets, and a target with
\* no weight only when none of the source's targets has one; and a record of a
\* target that was pruned sets its weight to 0.65.
C21_PruneTrimsWeightsOnly ==
    [][/\ \A th \in Thresholds :
            (call'.op = "prune" /\ call'.arg = th)
               => /\ DOMAIN weights' = {x \in DOMAIN weights : weights[x] >= th}
                  /\ \A x \in DOMAIN weights' : weights'[x] = weights[x]
                  /\ printed' = PRUNED
                                \o decimal(Cardinality(DOMAIN weights \ DOMAIN weights'))
                                \o AXIOMS
                  /\ axiom_tree' = axiom_tree
       /\ \A s \in GardenNodes :
            (call'.op = "suggest" /\ call'.arg = s /\ tree_get(axiom_tree, s) # << >>)
               => LET c == tree_get(axiom_tree, s)
                  IN  /\ result'.kind = "return"
                      /\ \E i \in 1..Len(c) :
                            /\ result'.val = Some(c[i])
                            /\ c[i] \notin DOMAIN weights
                                  => \A j \in 1..Len(c) : c[j] \notin DOMAIN weights
       /\ \A e \in GardenEdges :
            (/\ call'.op = "evolve"
             /\ call'.arg = e
             /\ times_recorded(axiom_tree, e[2], 1) >= 1
             /\ e[2] \notin DOMAIN weights)
               => /\ e[2] \in DOMAIN weights'
                  /\ weights'[e[2]] = (65 * ONE) \div 100]_vars

\* a prune at 0.8 of the graph A -> B, A -> C, B -> C: B (0.65) is removed, C (0.8,
\* equal to the threshold) stays, the edges stay and the line printed counts one
C21_Witness ==
    /\ call.op = "prune"
    /\ call.arg = (8 * ONE) \div 10
    /\ tree_get(axiom_tree, NodeA) = <<NodeB, NodeC>>
    /\ tree_get(axiom_tree, NodeB) = <<NodeC>>
    /\ DOMAIN weights = {NodeC}
    /\ weights[NodeC] = (8 * ONE) \div 10
    /\ printed = PRUNED \o <<"1">> \o AXIOMS

\* C22: with both locks latched, a process_command call whose filtered command
\* passes the judgment and whose axiom passes the safety gate returns a composed
\* response that carries ' Echoed in n prior transmutations.' with n at least 1,
\* the first such call included: the axiom is appended to logos_database before
\* the composer searches it, so the entry just written matches.
C22_ResponseEchoesOwnAxiom ==
    [][\A c \in Commands :
        (/\ call'.op = "process_command"
         /\ call'.arg = c
         /\ activated
         /\ is_logos_aligned(score_and_filter_self_interest(c))
         /\ \A e \in 1..Len(endings) :
               is_safe_to_execute(synthesize_logos(score_and_filter_self_interest(c),
                                                   endings[e], axiom_tree, weights)))
          => /\ result'.kind = "return"
             /\ Len(logos_database') = Len(logos_database) + 1
             /\ \E n \in 1..Len(logos_database') :
                   contains(result'.val, ECHOED_IN \o decimal(n) \o PRIOR_TRANSMUTATIONS)]_vars

=============================================================================
